---- MODULE Spec2Model ----
(***************************************************************************)
(* Cross_Margine_calculator.py: a Streamlit script.  Every user action     *)
(* (a button, a changed input, a price refresh) re-runs the script from    *)
(* top to bottom against st.session_state; one action of this module is    *)
(* one such event followed by the whole evaluation pass it triggers.       *)
(*                                                                         *)
(* Python floats are modelled as exact rationals [n, d] in lowest terms    *)
(* (d > 0); a division by zero yields the poison value [n |-> 0, d |-> 0], *)
(* which every later operation propagates and the pass reports as          *)
(* ZeroDivisionError.  Floating-point rounding is not modelled.            *)
(***************************************************************************)
EXTENDS Integers, Sequences, FiniteSets, TLC

\* ------------------------------------------------------------------ bounds

\* Longest position list the model builds (Add Position is disabled beyond it).
MaxPositions == 2

\* ------------------------------------------------------- exact arithmetic

AbsInt(x) == IF x < 0 THEN -x ELSE x

RECURSIVE GCD(_, _)
GCD(a, b) == IF b = 0 THEN a ELSE GCD(b, a % b)

NaN == [n |-> 0, d |-> 0]

IsNaN(x) == x.d = 0

\* n / d in lowest terms with a positive denominator; d = 0 is the poison value.
Rat(n, d) ==
    IF d = 0 THEN NaN
    ELSE LET g == GCD(AbsInt(n), AbsInt(d))
             s == IF d < 0 THEN -1 ELSE 1
         IN  [n |-> s * (n \div g), d |-> s * (d \div g)]

Num(i) == [n |-> i, d |-> 1]

Zero == Num(0)

Add(x, y) ==
    IF IsNaN(x) \/ IsNaN(y) THEN NaN
    ELSE LET g == GCD(x.d, y.d)
         IN  Rat(x.n * (y.d \div g) + y.n * (x.d \div g), (x.d \div g) * y.d)

Neg(x) == [n |-> -x.n, d |-> x.d]

Sub(x, y) == Add(x, Neg(y))

Mul(x, y) ==
    IF IsNaN(x) \/ IsNaN(y) THEN NaN
    ELSE LET g1 == GCD(AbsInt(x.n), y.d)
             g2 == GCD(AbsInt(y.n), x.d)
         IN  Rat((x.n \div g1) * (y.n \div g2), (x.d \div g2) * (y.d \div g1))

\* Python's x / y: ZeroDivisionError (the poison value) when y is 0.
Div(x, y) ==
    IF IsNaN(x) \/ IsNaN(y) \/ y.n = 0 THEN NaN
    ELSE Mul(x, Rat(y.d, y.n))

Lt(x, y) == x.n * y.d < y.n * x.d

Leq(x, y) == x.n * y.d <= y.n * x.d

AbsRat(x) == [n |-> AbsInt(x.n), d |-> x.d]

\* The sequence with the elements of s, each evaluated once.
Listed(s) == SubSeq(s, 1, Len(s))

\* s[1] + ... + s[k], accumulated from 0 in list order like sum() and +=.
RECURSIVE SumTo(_, _)
SumTo(s, k) == IF k = 0 THEN Zero ELSE Add(SumTo(s, k - 1), s[k])

SumSeq(s) == SumTo(Listed(s), Len(s))

\* ------------------------------------------------------------------ inputs

\* Two of the twelve tickers of the Cryptocurrency selectbox.
Symbols == {"BTCUSDT", "ETHUSDT"}

Sides == {"LONG", "SHORT"}

\* Values typed into the sidebar wallet input (min_value 1.0), in increasing order.
WalletInputs == <<Num(100), Num(203), Rat(459, 2), Num(1000)>>

WalletBalances == {WalletInputs[k] : k \in 1..Len(WalletInputs)}

\* The static table get_live_prices falls back to, for the modelled tickers.
DefaultPrices == [c \in Symbols |-> IF c = "BTCUSDT" THEN Num(50000) ELSE Num(3000)]

\* Results of get_binance_prices: (prices, success).  A request that fails, a
\* reply with no USDT ticker, a full reply, and a reply that lacks BTCUSDT.
FeedOutcomes ==
    { [prices |-> [c \in {} |-> Zero], success |-> FALSE],
      [prices |-> [c \in {} |-> Zero], success |-> TRUE],
      [prices |-> [c \in Symbols |-> IF c = "BTCUSDT" THEN Num(60000) ELSE Num(3000)],
       success |-> TRUE],
      [prices |-> [c \in {"ETHUSDT"} |-> Num(3000)], success |-> TRUE] }

\* Values typed into a manual override input (min_value 0.0; 0 means "use live").
OverrideInputs == {Zero, Num(30000)}

\* The options of the Leverage selectbox.
Leverages == {1, 2, 3, 5, 10, 20, 25, 50, 75, 100, 125}

\* Submissions of the Add Position form, but for the side: ticker, entry
\* price, leverage, position size and maintenance margin rate in percent.
FormInputs ==
    { [crypto |-> "BTCUSDT", entry_price |-> Num(50000), leverage |-> 10,
       position_size |-> Num(500), mmr_pct |-> Rat(1, 2)],
      [crypto |-> "BTCUSDT", entry_price |-> Num(40000), leverage |-> 3,
       position_size |-> Num(100), mmr_pct |-> Num(1)],
      [crypto |-> "ETHUSDT", entry_price |-> Num(3000), leverage |-> 5,
       position_size |-> Num(100), mmr_pct |-> Num(1)] }

\* ------------------------------------------------------------- price feed

get_live_prices(outcome) ==
    IF ~outcome.success \/ DOMAIN outcome.prices = {}
    THEN DefaultPrices
    ELSE outcome.prices

\* dict.get(key, default)
Get(dict, key, default) == IF key \in DOMAIN dict THEN dict[key] ELSE default

\* ----------------------------------------------------------- Add Position

\* Mutant of NewPosition: the margin is the size times the leverage.
NewPosition_MarginTimesLeverage(crypto, position_type, entry_price, leverage, position_size, mmr_pct) ==
    [ crypto                  |-> crypto,
      type                    |-> position_type,
      entry_price             |-> entry_price,
      leverage                |-> leverage,
      position_size           |-> position_size,
      maintenance_margin_rate |-> Div(mmr_pct, Num(100)),
      margin_used             |-> Mul(position_size, Num(leverage)),
      quantity                |-> Div(position_size, entry_price) ]

\* The record built and appended by the Add Position button.
NewPosition(crypto, position_type, entry_price, leverage, position_size, mmr_pct) ==
    [ crypto                  |-> crypto,
      type                    |-> position_type,
      entry_price             |-> entry_price,
      leverage                |-> leverage,
      position_size           |-> position_size,
      maintenance_margin_rate |-> Div(mmr_pct, Num(100)),
      margin_used             |-> Div(position_size, Num(leverage)),
      quantity                |-> Div(position_size, entry_price) ]

\* ------------------------------------------------------- price resolution

unique_cryptos(ps) == { ps[i].crypto : i \in 1..Len(ps) }

\* next(pos['entry_price'] for pos in positions if pos['crypto'] == crypto)
FirstEntryPrice(ps, crypto) ==
    ps[CHOOSE i \in 1..Len(ps) :
          /\ ps[i].crypto = crypto
          /\ \A j \in 1..(i - 1) : ps[j].crypto # crypto].entry_price

\* Mutant of ResolvePrice: the "if live_price > 0" test is dropped.
ResolvePrice_Unguarded(live_price, entry_price) == live_price

\* The live price when it is > 0, otherwise the entry price.
ResolvePrice(live_price, entry_price) ==
    IF Lt(Zero, live_price) THEN live_price ELSE entry_price

\* The dict of overrides typed > 0, for the tickers whose input is rendered.
ManualOverrides(ps, inputs) ==
    [c \in {u \in unique_cryptos(ps) : Lt(Zero, inputs[u])} |-> inputs[c]]

\* Mutant of CurrentPrices: the overrides are applied before the live loop,
\* which then overwrites them.
CurrentPrices_LiveLast(ps, lp, inputs) ==
    LET overrides == ManualOverrides(ps, inputs)
    IN  [c \in unique_cryptos(ps) |->
            IF Lt(Zero, Get(lp, c, Zero)) \/ c \notin DOMAIN overrides
            THEN ResolvePrice(Get(lp, c, Zero), FirstEntryPrice(ps, c))
            ELSE overrides[c]]

\* current_prices after the live loop and after the overrides are applied.
CurrentPrices(ps, lp, inputs) ==
    LET overrides == ManualOverrides(ps, inputs)
    IN  [c \in unique_cryptos(ps) |->
            IF c \in DOMAIN overrides
            THEN overrides[c]
            ELSE ResolvePrice(Get(lp, c, Zero), FirstEntryPrice(ps, c))]

\* -------------------------------------------------------------------- PnL

PositionPnl(position_type, entry_price, current_price, quantity) ==
    IF position_type = "LONG"
    THEN Mul(Sub(current_price, entry_price), quantity)
    ELSE Mul(Sub(entry_price, current_price), quantity)

\* total_pnl accumulated position by position.
TotalPnl(ps, cp) ==
    SumSeq([i \in 1..Len(ps) |->
        PositionPnl(ps[i].type, ps[i].entry_price,
                    Get(cp, ps[i].crypto, ps[i].entry_price), ps[i].quantity)])

\* total_maintenance_margin accumulated position by position.
TotalMaintenanceMargin(ps) ==
    SumSeq([i \in 1..Len(ps) |-> Mul(ps[i].position_size, ps[i].maintenance_margin_rate)])

\* Mutant of MarginRatio: a balance that is not > 0 gives the ratio 0.
MarginRatio_ZeroWhenBroke(total_mm, current_balance) ==
    IF Lt(Zero, current_balance)
    THEN Mul(Div(total_mm, current_balance), Num(100))
    ELSE Zero

\* margin_ratio: maintenance margin over balance in percent, 100 without a
\* balance > 0.
MarginRatio(total_mm, current_balance) ==
    IF Lt(Zero, current_balance)
    THEN Mul(Div(total_mm, current_balance), Num(100))
    ELSE Num(100)

\* The warning shown under the metrics.
Warning(margin_ratio) ==
    IF Leq(Num(100), margin_ratio) THEN "LIQUIDATION RISK"
    ELSE IF Leq(Num(80), margin_ratio) THEN "HIGH RISK"
    ELSE "none"

\* --------------------------------------------------------------- grouping

\* key = f"{pos['crypto']}_{pos['type']}"
KeyOf(pos) == <<pos.crypto, pos.type>>

\* The keys of grouped_positions in the dict's (insertion) order.
RECURSIVE GroupKeys(_)
GroupKeys(ps) ==
    IF ps = <<>> THEN <<>>
    ELSE LET before == GroupKeys(SubSeq(ps, 1, Len(ps) - 1))
             key    == KeyOf(ps[Len(ps)])
         IN  IF \E i \in 1..Len(before) : before[i] = key
             THEN before
             ELSE Append(before, key)

\* group['positions']: the members of a key, in list order.
Members(ps, key) ==
    LET Test(pos) == KeyOf(pos) = key
    IN  SelectSeq(ps, Test)

\* sum(pos['quantity'] for pos in group['positions'])
TotalQuantity(members) == SumSeq([i \in 1..Len(members) |-> members[i].quantity])

\* Mutant of WeightedEntryPrice: the plain mean of the entry prices.
WeightedEntryPrice_Unweighted(members) ==
    Div(SumSeq([i \in 1..Len(members) |-> members[i].entry_price]), Num(Len(members)))

WeightedEntryPrice(members) ==
    LET total_quantity     == TotalQuantity(members)
        weighted_price_sum ==
            SumSeq([i \in 1..Len(members) |-> Mul(members[i].entry_price, members[i].quantity)])
    IN  IF Lt(Zero, total_quantity) THEN Div(weighted_price_sum, total_quantity) ELSE Zero

AverageLeverage(total_size, total_margin) ==
    IF Lt(Zero, total_margin) THEN Div(total_size, total_margin) ELSE Num(1)

\* One entry of grouped_positions after both grouping loops.
Group(ps, key) ==
    LET members      == Members(ps, key)
        total_size   == SumSeq([i \in 1..Len(members) |-> members[i].position_size])
        total_margin == SumSeq([i \in 1..Len(members) |-> members[i].margin_used])
    IN  [ crypto               |-> key[1],
          type                 |-> key[2],
          total_size           |-> total_size,
          weighted_entry_price |-> WeightedEntryPrice(members),
          total_margin         |-> total_margin,
          positions            |-> members,
          average_leverage     |-> AverageLeverage(total_size, total_margin) ]

\* grouped_positions, as the sequence of its values in the dict's order.
GroupedPositions(ps) ==
    LET keys == GroupKeys(ps)
    IN  Listed([i \in 1..Len(keys) |-> Group(ps, keys[i])])

\* ------------------------------------------------------------ liquidation

\* Mutant of AvgMmr: the rate of the member added last.
AvgMmr_Last(members) == members[Len(members)].maintenance_margin_rate

\* avg_mmr: the unweighted mean of the members' rates.
AvgMmr(members) ==
    Div(SumSeq([i \in 1..Len(members) |-> members[i].maintenance_margin_rate]),
        Num(Len(members)))

GroupMaintenanceMargin(group) == Mul(group.total_size, AvgMmr(group.positions))

\* What the loops over grouped_positions compute from one group alone (the
\* script recomputes them wherever it needs them): its maintenance margin, its
\* quantity, the current price of its ticker and its PnL at that price.
GroupFigures(group, cp) ==
    LET total_quantity == TotalQuantity(group.positions)
        current_price  == Get(cp, group.crypto, group.weighted_entry_price)
    IN  [ maintenance_margin |-> GroupMaintenanceMargin(group),
          total_quantity     |-> total_quantity,
          current_price      |-> current_price,
          pnl                |-> PositionPnl(group.type, group.weighted_entry_price,
                                             current_price, total_quantity) ]

\* The figures of the groups other than the g-th, in the dict's order.
Others(figures, g) ==
    Listed([i \in 1..(Len(figures) - 1) |-> IF i < g THEN figures[i] ELSE figures[i + 1]])

\* Mutant of AvailableBalance: the "other_key != key" tests are missing.
AvailableBalance_AllGroups(figures, g, wallet) ==
    Sub(Add(wallet, SumSeq([i \in 1..Len(figures) |-> figures[i].pnl])),
        SumSeq([i \in 1..Len(figures) |-> figures[i].maintenance_margin]))

\* available_balance = wallet_balance + other_positions_pnl - other_maintenance_margin
AvailableBalance(figures, g, wallet) ==
    LET others                   == Others(figures, g)
        other_positions_pnl      == SumSeq([i \in 1..Len(others) |-> others[i].pnl])
        other_maintenance_margin ==
            SumSeq([i \in 1..Len(others) |-> others[i].maintenance_margin])
    IN  Sub(Add(wallet, other_positions_pnl), other_maintenance_margin)

\* Mutant of DerivedLiqPrice: the SHORT formula is used for both sides.
DerivedLiqPrice_SameSign(side, entry, available_balance, maintenance_margin, quantity) ==
    Add(entry, Div(Sub(available_balance, maintenance_margin), quantity))

\* Mutant of DerivedLiqPrice: the group's own maintenance margin is left out.
DerivedLiqPrice_NoMargin(side, entry, available_balance, maintenance_margin, quantity) ==
    IF side = "LONG"
    THEN Sub(entry, Div(available_balance, quantity))
    ELSE Add(entry, Div(available_balance, quantity))

\* liq_price before the positivity check.
DerivedLiqPrice(side, entry, available_balance, maintenance_margin, quantity) ==
    IF side = "LONG"
    THEN Sub(entry, Div(Sub(available_balance, maintenance_margin), quantity))
    ELSE Add(entry, Div(Sub(available_balance, maintenance_margin), quantity))

\* Mutant of ClampLiqPrice: the positivity check is missing.
ClampLiqPrice_Missing(position_type, weighted_entry_price, liq_price) == liq_price

\* "Ensure liquidation price is positive and reasonable"
ClampLiqPrice(position_type, weighted_entry_price, liq_price) ==
    IF Leq(liq_price, Zero)
    THEN IF position_type = "LONG"
         THEN Mul(weighted_entry_price, Rat(1, 100))
         ELSE Mul(weighted_entry_price, Num(100))
    ELSE liq_price

DistanceToLiq(liq_price, current_price) ==
    AbsRat(Mul(Div(Sub(liq_price, current_price), current_price), Num(100)))

\* The row appended to grouped_data for a group.
GroupedRow(group, figures, available_balance) ==
    LET liq_price ==
            ClampLiqPrice(group.type, group.weighted_entry_price,
                DerivedLiqPrice(group.type, group.weighted_entry_price, available_balance,
                                figures.maintenance_margin, figures.total_quantity))
    IN  [ crypto             |-> group.crypto,
          type               |-> group.type,
          positions_count    |-> Len(group.positions),
          total_size_usdt    |-> group.total_size,
          weighted_avg_entry |-> group.weighted_entry_price,
          avg_leverage       |-> group.average_leverage,
          current_price      |-> figures.current_price,
          liquidation_price  |-> liq_price,
          distance_to_liq    |-> DistanceToLiq(liq_price, figures.current_price),
          current_pnl        |-> figures.pnl,
          maintenance_margin |-> figures.maintenance_margin ]

\* The loop that fills grouped_data: per group, the local available_balance
\* and the row appended.
LiquidationLoop(ps, wallet, cp) ==
    LET groups  == GroupedPositions(ps)
        figures == Listed([g \in 1..Len(groups) |-> GroupFigures(groups[g], cp)])
    IN  Listed([g \in 1..Len(groups) |->
            LET available_balance == AvailableBalance(figures, g, wallet)
            IN  [ available_balance |-> available_balance,
                  row               |-> GroupedRow(groups[g], figures[g], available_balance) ]])

GroupedData(ps, wallet, cp) ==
    LET loop == LiquidationLoop(ps, wallet, cp)
    IN  [g \in 1..Len(loop) |-> loop[g].row]

\* ------------------------------------------------------ the script's pass

\* Names the script binds on every run, and those it binds only inside
\* "if st.session_state.positions:"; the names the footer's f-string reads.
TopLevelNames == {"wallet_balance", "auto_refresh", "live_prices", "crypto", "position_type",
                  "entry_price", "leverage", "position_size", "maintenance_margin_rate"}

BranchNames == {"positions_df", "total_margin_used", "available_balance", "current_prices",
                "unique_cryptos", "manual_overrides", "total_pnl", "total_maintenance_margin",
                "liquidation_data", "current_balance", "margin_ratio", "grouped_positions",
                "grouped_data", "total_maintenance_margin_grouped", "individual_scenarios"}

FooterReads == {"wallet_balance", "total_pnl", "total_maintenance_margin_grouped", "margin_ratio"}

Namespace(ps) == IF ps # <<>> THEN TopLevelNames \cup BranchNames ELSE TopLevelNames

\* Whether some division of the run had a zero divisor.
DividedByZero(ps, rows, values) ==
    \/ \E i \in 1..Len(ps) : IsNaN(ps[i].margin_used) \/ IsNaN(ps[i].quantity)
    \/ \E g \in 1..Len(rows) :
          \/ IsNaN(rows[g].weighted_avg_entry)
          \/ IsNaN(rows[g].avg_leverage)
          \/ IsNaN(rows[g].maintenance_margin)
          \/ IsNaN(rows[g].liquidation_price)
          \/ IsNaN(rows[g].distance_to_liq)
          \/ IsNaN(rows[g].current_pnl)
    \/ \E v \in values : IsNaN(v)

\* How the run ends: a ZeroDivisionError where a divisor was 0, else a
\* NameError where the footer reads a name the run has not bound.
RunError(ps, rows, values) ==
    IF DividedByZero(ps, rows, values)
    THEN "ZeroDivisionError"
    ELSE IF FooterReads \subseteq Namespace(ps) THEN "none" ELSE "NameError"

\* What a run leaves behind once its figures are known.
Outcome(ps, cp, pnl, mm, balance, ratio, rows, available, mm_grouped) ==
    [ current_prices                   |-> cp,
      total_pnl                        |-> pnl,
      total_maintenance_margin         |-> mm,
      current_balance                  |-> balance,
      margin_ratio                     |-> ratio,
      warning                          |-> Warning(ratio),
      grouped_data                     |-> rows,
      available_balances               |-> available,
      total_maintenance_margin_grouped |-> mm_grouped,
      namespace                        |-> Namespace(ps),
      error                            |-> RunError(ps, rows, {pnl, mm, balance, ratio, mm_grouped}) ]

\* The grouped section: grouped_data and total_maintenance_margin_grouped.
GroupedSection(ps, cp, pnl, mm, balance, ratio, rows, available) ==
    Outcome(ps, cp, pnl, mm, balance, ratio, rows, available,
            SumSeq([g \in 1..Len(rows) |-> rows[g].maintenance_margin]))

\* The risk summary: current_balance and margin_ratio, then the grouped loop.
RiskSection(ps, cp, pnl, mm, balance, loop) ==
    GroupedSection(ps, cp, pnl, mm, balance, MarginRatio(mm, balance),
                   Listed([g \in 1..Len(loop) |-> loop[g].row]),
                   Listed([g \in 1..Len(loop) |-> loop[g].available_balance]))

\* The per-position loop: total_pnl and total_maintenance_margin.
PositionsSection(ps, wallet, cp, pnl) ==
    RiskSection(ps, cp, pnl, TotalMaintenanceMargin(ps), Add(wallet, pnl),
                LiquidationLoop(ps, wallet, cp))

\* The body of "if st.session_state.positions:" at the resolved prices.
PositionsBranch(ps, wallet, cp) == PositionsSection(ps, wallet, cp, TotalPnl(ps, cp))

\* The else branch: only the "No positions added yet" message is rendered.
ElseBranch(ps) ==
    [ current_prices                   |-> [c \in {} |-> Zero],
      total_pnl                        |-> Zero,
      total_maintenance_margin         |-> Zero,
      current_balance                  |-> Zero,
      margin_ratio                     |-> Zero,
      warning                          |-> "none",
      grouped_data                     |-> <<>>,
      available_balances               |-> <<>>,
      total_maintenance_margin_grouped |-> Zero,
      namespace                        |-> Namespace(ps),
      error                            |-> RunError(ps, <<>>, {}) ]

\* One run of the script over the session's positions and the widgets' values:
\* everything it computes, and the exception that ends it (if any).
Pass(ps, wallet, lp, inputs) ==
    IF ps # <<>>
    THEN PositionsBranch(ps, wallet, CurrentPrices(ps, lp, inputs))
    ELSE ElseBranch(ps)

\* ------------------------------------------------------------------ state

VARIABLES
    positions,          \* st.session_state.positions
    wallet_balance,     \* the sidebar input
    live_prices,        \* what get_live_prices returned to the last run
    override_inputs,    \* the values of the manual override inputs
    current_prices,     \* the rest: what the last run computed
    total_pnl,
    total_maintenance_margin,
    current_balance,
    margin_ratio,
    warning,
    grouped_data,
    available_balances,
    total_maintenance_margin_grouped,
    namespace,          \* the names the last run bound
    error               \* the exception that ended the last run, or "none"

inputVars == <<positions, wallet_balance, live_prices, override_inputs>>

outputVars == <<current_prices, total_pnl, total_maintenance_margin, current_balance,
                margin_ratio, warning, grouped_data, available_balances,
                total_maintenance_margin_grouped, namespace, error>>

vars == <<inputVars, outputVars>>

\* The override inputs a run renders keep their values; the others are dropped.
Rendered(ps, inputs) == [c \in Symbols |-> IF c \in unique_cryptos(ps) THEN inputs[c] ELSE Zero]

\* The script runs over the given session state and widget values.
Run(ps, wallet, lp, inputs) ==
    \E out \in {Pass(ps, wallet, lp, Rendered(ps, inputs))} :
        /\ positions' = ps
        /\ wallet_balance' = wallet
        /\ live_prices' = lp
        /\ override_inputs' = Rendered(ps, inputs)
        /\ current_prices' = out.current_prices
        /\ total_pnl' = out.total_pnl
        /\ total_maintenance_margin' = out.total_maintenance_margin
        /\ current_balance' = out.current_balance
        /\ margin_ratio' = out.margin_ratio
        /\ warning' = out.warning
        /\ grouped_data' = out.grouped_data
        /\ available_balances' = out.available_balances
        /\ total_maintenance_margin_grouped' = out.total_maintenance_margin_grouped
        /\ namespace' = out.namespace
        /\ error' = out.error

\* Session start: no positions, the wallet input at its default, the first run done.
Init ==
    \E outcome \in FeedOutcomes :
        LET lp  == get_live_prices(outcome)
            out == Pass(<<>>, Num(1000), lp, [c \in Symbols |-> Zero])
        IN  /\ positions = <<>>
            /\ wallet_balance = Num(1000)
            /\ live_prices = lp
            /\ override_inputs = [c \in Symbols |-> Zero]
            /\ current_prices = out.current_prices
            /\ total_pnl = out.total_pnl
            /\ total_maintenance_margin = out.total_maintenance_margin
            /\ current_balance = out.current_balance
            /\ margin_ratio = out.margin_ratio
            /\ warning = out.warning
            /\ grouped_data = out.grouped_data
            /\ available_balances = out.available_balances
            /\ total_maintenance_margin_grouped = out.total_maintenance_margin_grouped
            /\ namespace = out.namespace
            /\ error = out.error

\* Mutant of AddPosition: the record is put at the head of the list.
AddPosition_Prepend(crypto, position_type, entry_price, leverage, position_size, mmr_pct) ==
    /\ Len(positions) < MaxPositions
    /\ Run(<<NewPosition(crypto, position_type, entry_price, leverage,
                         position_size, mmr_pct)>> \o positions,
           wallet_balance, live_prices, override_inputs)

\* The Add Position button: the record is appended, then the run goes on.
AddPosition(crypto, position_type, entry_price, leverage, position_size, mmr_pct) ==
    /\ Len(positions) < MaxPositions
    /\ Run(Append(positions,
                  NewPosition(crypto, position_type, entry_price, leverage,
                              position_size, mmr_pct)),
           wallet_balance, live_prices, override_inputs)

\* The Clear All Positions button (rendered only when there are positions):
\* the list is emptied and st.rerun() runs the script again.
ClearAllPositions ==
    /\ positions # <<>>
    /\ Run(<<>>, wallet_balance, live_prices, override_inputs)

\* Refresh Prices Now, or the cache expiring: the feed is fetched again.
RefreshPrices(outcome) ==
    /\ get_live_prices(outcome) # live_prices
    /\ Run(positions, wallet_balance, get_live_prices(outcome), override_inputs)

\* The wallet input is changed.
SetWalletBalance(w) ==
    /\ w # wallet_balance
    /\ Run(positions, w, live_prices, override_inputs)

\* A manual override input (rendered for the tickers in play) is changed.
SetManualOverride(crypto, price) ==
    /\ crypto \in unique_cryptos(positions)
    /\ price # override_inputs[crypto]
    /\ Run(positions, wallet_balance, live_prices,
           [override_inputs EXCEPT ![crypto] = price])

Next ==
    \/ \E f \in FormInputs, side \in Sides :
          AddPosition(f.crypto, side, f.entry_price, f.leverage, f.position_size, f.mmr_pct)
    \/ ClearAllPositions
    \/ \E outcome \in FeedOutcomes : RefreshPrices(outcome)
    \/ \E w \in WalletBalances : SetWalletBalance(w)
    \/ \E c \in Symbols, price \in OverrideInputs : SetManualOverride(c, price)

Spec == Init /\ [][Next]_vars

\* ================================================================= claims

\* The form submissions the spec's end-to-end scenarios use.
ScenarioBtcLong == NewPosition("BTCUSDT", "LONG", Num(50000), 10, Num(500), Rat(1, 2))

ScenarioEthShort == NewPosition("ETHUSDT", "SHORT", Num(3000), 5, Num(100), Num(1))

\* The quantity of the group a row of grouped_data stands for.
RowQuantity(ps, row) == TotalQuantity(Members(ps, <<row.crypto, row.type>>))

\* The liquidation price a row's own figures give before any clamp:
\* weighted entry -/+ (available balance - maintenance margin) / quantity.
RowDerived(ps, row, available_balance) ==
    LET excess == Div(Sub(available_balance, row.maintenance_margin), RowQuantity(ps, row))
    IN  IF row.type = "LONG"
        THEN Sub(row.weighted_avg_entry, excess)
        ELSE Add(row.weighted_avg_entry, excess)

\* ----------------------------------------------------------------------------
\* C1: a run over an empty position list (at session start or right after
\* Clear All Positions) ends without an exception and with an empty result.
\* The footer reads total_pnl, total_maintenance_margin_grouped and
\* margin_ratio, which only the non-empty branch binds: the run ends in a
\* NameError, so this statement is violated (already in the initial state).
C1_EmptyPassCompletes ==
    positions = <<>> => (error = "none" /\ grouped_data = <<>>)

\* ----------------------------------------------------------------------------
\* C2 (as stated): with the positions and the current prices fixed, for any two
\* wallet balances w1 < w2 every LONG group's reported liquidation price is
\* strictly lower under w2 and every SHORT group's strictly higher.
C2_ReportedMonotoneInWallet ==
    \A w1 \in WalletBalances, w2 \in WalletBalances :
        Lt(w1, w2) =>
            LET rows1 == GroupedData(positions, w1, current_prices)
                rows2 == GroupedData(positions, w2, current_prices)
            IN  \A g \in 1..Len(rows1) :
                    IF rows1[g].type = "LONG"
                    THEN Lt(rows2[g].liquidation_price, rows1[g].liquidation_price)
                    ELSE Lt(rows1[g].liquidation_price, rows2[g].liquidation_price)

\* The liquidation loop of the positions at the current prices under each of
\* the wallet balances.
C2_Loops == Listed([k \in 1..Len(WalletInputs) |->
                LiquidationLoop(positions, WalletInputs[k], current_prices)])

\* Whether the g-th group's derived price is > 0 (not clamped) in a loop.
C2_Unclamped(loop, g) ==
    Lt(Zero, RowDerived(positions, loop[g].row, loop[g].available_balance))

\* C2 (amended): the same, for the groups whose derived liquidation price is
\* positive, hence reported unclamped, under both balances.
C2_UnclampedMonotoneInWallet ==
    LET loops == C2_Loops
    IN  \A k1 \in 1..Len(loops), k2 \in 1..Len(loops) :
            Lt(WalletInputs[k1], WalletInputs[k2]) =>
                \A g \in 1..Len(loops[k1]) :
                    (C2_Unclamped(loops[k1], g) /\ C2_Unclamped(loops[k2], g)) =>
                        IF loops[k1][g].row.type = "LONG"
                        THEN Lt(loops[k2][g].row.liquidation_price,
                                loops[k1][g].row.liquidation_price)
                        ELSE Lt(loops[k1][g].row.liquidation_price,
                                loops[k2][g].row.liquidation_price)

\* C2 witness: a LONG and a SHORT group, each unclamped under two balances.
C2_Witness ==
    /\ error = "none"
    /\ LET loops == C2_Loops
       IN  \E k1 \in 1..Len(loops), k2 \in 1..Len(loops) :
               /\ Lt(WalletInputs[k1], WalletInputs[k2])
               /\ \E g \in 1..Len(loops[k1]) :
                     /\ loops[k1][g].row.type = "LONG"
                     /\ C2_Unclamped(loops[k1], g) /\ C2_Unclamped(loops[k2], g)
               /\ \E g \in 1..Len(loops[k1]) :
                     /\ loops[k1][g].row.type = "SHORT"
                     /\ C2_Unclamped(loops[k1], g) /\ C2_Unclamped(loops[k2], g)

\* ----------------------------------------------------------------------------
\* C3: a group whose derived liquidation price is <= 0 reports
\* weighted_entry_price * 0.01 (LONG) or * 100 (SHORT), any other group reports
\* the derived price; wallet 1000 with the one LONG BTCUSDT position of the
\* scenario at price 50000 reports 500.
C3_DegenerateClamp ==
    /\ \A g \in 1..Len(grouped_data) :
          LET row     == grouped_data[g]
              derived == RowDerived(positions, row, available_balances[g])
          IN  IF Leq(derived, Zero)
              THEN row.liquidation_price =
                       IF row.type = "LONG"
                       THEN Div(row.weighted_avg_entry, Num(100))
                       ELSE Mul(row.weighted_avg_entry, Num(100))
              ELSE row.liquidation_price = derived
    /\ ( /\ positions = <<ScenarioBtcLong>>
         /\ wallet_balance = Num(1000)
         /\ current_prices["BTCUSDT"] = Num(50000) )
       => grouped_data[1].liquidation_price = Num(500)

\* C3 witness: the scenario, reached with its derived price negative.
C3_Witness ==
    /\ positions = <<ScenarioBtcLong>>
    /\ wallet_balance = Num(1000)
    /\ current_prices["BTCUSDT"] = Num(50000)
    /\ Lt(RowDerived(positions, grouped_data[1], available_balances[1]), Zero)
    /\ grouped_data[1].liquidation_price = Num(500)

\* ----------------------------------------------------------------------------
\* C4: the row of a group whose price was clamped carries a degenerate flag
\* that is set, and no row of an unclamped group has the flag set.  The rows of
\* grouped_data have no such field, so the statement is violated as soon as a
\* group is clamped.
C4_ClampFlagged ==
    \A g \in 1..Len(grouped_data) :
        LET row     == grouped_data[g]
            clamped == Leq(RowDerived(positions, row, available_balances[g]), Zero)
            flagged == "degenerate" \in DOMAIN row /\ row["degenerate"] = TRUE
        IN  flagged <=> clamped

\* ----------------------------------------------------------------------------
\* C5: no run reached by Add Position / Clear All Positions / price refresh /
\* manual override / wallet changes ends in a division by zero.
C5_NoDivisionByZero == error # "ZeroDivisionError"

\* C5 witness: a run over two groups where the feed has no price for a ticker
\* in play and the other ticker is overridden: every division of the pass was
\* made (none by zero).
C5_Witness ==
    /\ Len(grouped_data) = 2
    /\ \E c \in unique_cryptos(positions) : c \notin DOMAIN live_prices
    /\ \E c \in unique_cryptos(positions) : Lt(Zero, override_inputs[c])
    /\ error = "none"
    /\ \A g \in 1..2 : ~IsNaN(grouped_data[g].distance_to_liq)

\* ----------------------------------------------------------------------------
\* The members of a row's group, and sums over the rows of grouped_data.
RowMembers(ps, row) == Members(ps, <<row.crypto, row.type>>)

RowsPnl(rows) == SumSeq([g \in 1..Len(rows) |-> rows[g].current_pnl])

RowsMaintenanceMargin(rows) == SumSeq([g \in 1..Len(rows) |-> rows[g].maintenance_margin])

\* C6: the total_maintenance_margin behind margin_ratio is the sum of the
\* groups' maintenance margins, each total_notional times the unweighted mean
\* of its members' rates.  The script sums position_size * rate position by
\* position instead, which differs as soon as a group's members have different
\* rates and sizes: the statement is violated.
C6_AccountMarginIsGroupSum ==
    /\ total_maintenance_margin = RowsMaintenanceMargin(grouped_data)
    /\ \A g \in 1..Len(grouped_data) :
          LET row     == grouped_data[g]
              members == RowMembers(positions, row)
              rates   == [i \in 1..Len(members) |-> members[i].maintenance_margin_rate]
          IN  row.maintenance_margin =
                  Mul(row.total_size_usdt, Div(SumSeq(rates), Num(Len(members))))

\* ----------------------------------------------------------------------------
\* C7: total_pnl, accumulated position by position, equals the sum of the
\* groups' PnL, each computed from the group's weighted entry price and total
\* quantity at the same current prices.
C7_TotalPnlIsGroupSum ==
    /\ total_pnl = RowsPnl(grouped_data)
    /\ \A g \in 1..Len(grouped_data) :
          LET row   == grouped_data[g]
              price == current_prices[row.crypto]
              move  == IF row.type = "LONG"
                       THEN Sub(price, row.weighted_avg_entry)
                       ELSE Sub(row.weighted_avg_entry, price)
          IN  row.current_pnl = Mul(move, RowQuantity(positions, row))

\* C7 witness: a group of two positions entered at different prices, priced
\* away from its weighted entry, with a non-zero account PnL.
C7_Witness ==
    /\ error = "none"
    /\ total_pnl # Zero
    /\ \E g \in 1..Len(grouped_data) :
          /\ grouped_data[g].positions_count = 2
          /\ grouped_data[g].current_price # grouped_data[g].weighted_avg_entry
          /\ LET members == RowMembers(positions, grouped_data[g])
             IN  members[1].entry_price # members[2].entry_price

\* ----------------------------------------------------------------------------
\* C8: a group's available_balance is the wallet balance plus the PnL of every
\* other group minus the maintenance margin of every other group; with one
\* group it is the wallet balance; in the two-group scenario (BTCUSDT LONG
\* with PnL +100 and maintenance 2.5, ETHUSDT SHORT, wallet 1000) the ETHUSDT
\* group's is 1097.5.
C8_AvailableBalance ==
    /\ Len(available_balances) = Len(grouped_data)
    /\ \A g \in 1..Len(grouped_data) :
          LET row          == grouped_data[g]
              other_pnl    == Sub(RowsPnl(grouped_data), row.current_pnl)
              other_margin == Sub(RowsMaintenanceMargin(grouped_data), row.maintenance_margin)
          IN  available_balances[g] = Sub(Add(wallet_balance, other_pnl), other_margin)
    /\ Len(grouped_data) = 1 => available_balances[1] = wallet_balance
    /\ ( /\ positions = <<ScenarioBtcLong, ScenarioEthShort>>
         /\ wallet_balance = Num(1000)
         /\ current_prices["BTCUSDT"] = Num(60000) )
       => available_balances[2] = Rat(2195, 2)

\* C8 witness: the two-group scenario.
C8_Witness ==
    /\ positions = <<ScenarioBtcLong, ScenarioEthShort>>
    /\ wallet_balance = Num(1000)
    /\ current_prices["BTCUSDT"] = Num(60000)
    /\ grouped_data[1].current_pnl = Num(100)
    /\ grouped_data[1].maintenance_margin = Rat(5, 2)
    /\ available_balances[2] = Rat(2195, 2)
    /\ Lt(wallet_balance, available_balances[2])

\* ----------------------------------------------------------------------------
\* The position list in another order.
Permuted(ps, p) == Listed([i \in 1..Len(ps) |-> ps[p[i]]])

\* The per-(symbol, side) aggregates of a position list.
C9_Aggregates(ps) ==
    LET groups == GroupedPositions(ps)
    IN  { [ crypto               |-> groups[g].crypto,
            type                 |-> groups[g].type,
            total_size           |-> groups[g].total_size,
            total_margin         |-> groups[g].total_margin,
            total_quantity       |-> TotalQuantity(groups[g].positions),
            weighted_entry_price |-> groups[g].weighted_entry_price,
            average_leverage     |-> groups[g].average_leverage,
            avg_mmr              |-> AvgMmr(groups[g].positions),
            maintenance_margin   |-> GroupMaintenanceMargin(groups[g]) ] :
          g \in 1..Len(groups) }

\* The per-(symbol, side) liquidation prices of a list of rows.
C9_LiqPrices(rows) ==
    { <<rows[g].crypto, rows[g].type, rows[g].liquidation_price>> : g \in 1..Len(rows) }

\* C9 (as stated): a run over any permutation of the position list gives the
\* same per-group aggregates and the same per-group liquidation prices.
C9_RunOrderIndependent ==
    LET aggregates == C9_Aggregates(positions)
        liq_prices == C9_LiqPrices(grouped_data)
    IN  \A p \in Permutations(1..Len(positions)) :
            LET ps == Permuted(positions, p)
                cp == CurrentPrices(ps, live_prices, override_inputs)
            IN  /\ C9_Aggregates(ps) = aggregates
                /\ C9_LiqPrices(GroupedData(ps, wallet_balance, cp)) = liq_prices

\* C9 (amended): any permutation of the position list gives the same per-group
\* aggregates and, at the same current prices, the same liquidation prices.
C9_GroupingOrderIndependent ==
    LET aggregates == C9_Aggregates(positions)
        liq_prices == C9_LiqPrices(grouped_data)
    IN  \A p \in Permutations(1..Len(positions)) :
            LET ps == Permuted(positions, p)
            IN  /\ C9_Aggregates(ps) = aggregates
                /\ C9_LiqPrices(GroupedData(ps, wallet_balance, current_prices)) = liq_prices

\* C9 witness: a group of two positions that differ in entry price, leverage,
\* size and rate, so that the other order is another list.
C9_Witness ==
    /\ error = "none"
    /\ \E g \in 1..Len(grouped_data) :
          /\ grouped_data[g].positions_count = 2
          /\ LET members == RowMembers(positions, grouped_data[g])
             IN  /\ members[1].entry_price # members[2].entry_price
                 /\ members[1].maintenance_margin_rate # members[2].maintenance_margin_rate
                 /\ members[1].position_size # members[2].position_size
                 /\ members[1].leverage # members[2].leverage

\* ----------------------------------------------------------------------------
\* C10: after price resolution current_prices holds a price > 0 for exactly the
\* tickers in play: the override when one > 0 is typed, else the live price
\* when the feed (or the static table it fails over to) has one > 0, else the
\* entry price of a position of that ticker.
C10_ResolvedPrices ==
    positions # <<>> =>
        /\ DOMAIN current_prices = unique_cryptos(positions)
        /\ \A c \in unique_cryptos(positions) :
              /\ Lt(Zero, current_prices[c])
              /\ IF Lt(Zero, override_inputs[c])
                 THEN current_prices[c] = override_inputs[c]
                 ELSE IF c \in DOMAIN live_prices /\ Lt(Zero, live_prices[c])
                 THEN current_prices[c] = live_prices[c]
                 ELSE \E i \in 1..Len(positions) :
                         /\ positions[i].crypto = c
                         /\ current_prices[c] = positions[i].entry_price

\* C10 witness: one ticker without a live price falls back to an entry price
\* while another, with a live price, is overridden.
C10_Witness ==
    /\ error = "none"
    /\ \E c \in unique_cryptos(positions) :
          /\ c \notin DOMAIN live_prices
          /\ override_inputs[c] = Zero
          /\ \E i \in 1..Len(positions) : current_prices[c] = positions[i].entry_price
    /\ \E c \in unique_cryptos(positions) :
          /\ c \in DOMAIN live_prices
          /\ Lt(Zero, override_inputs[c])
          /\ current_prices[c] = override_inputs[c]
          /\ current_prices[c] # live_prices[c]

\* ----------------------------------------------------------------------------
\* C11: after a run over positions, current_balance is wallet_balance +
\* total_pnl; margin_ratio is total_maintenance_margin / current_balance * 100
\* when current_balance > 0 and exactly 100 otherwise; the warning is
\* "LIQUIDATION RISK" iff the ratio is >= 100, "HIGH RISK" iff it is >= 80 and
\* < 100, and absent otherwise, so that a balance <= 0 is always shown as
\* liquidation risk.
C11_MarginRatioBands ==
    positions # <<>> =>
        /\ current_balance = Add(wallet_balance, total_pnl)
        /\ IF Lt(Zero, current_balance)
           THEN margin_ratio = Mul(Div(total_maintenance_margin, current_balance), Num(100))
           ELSE margin_ratio = Num(100)
        /\ warning \in {"LIQUIDATION RISK", "HIGH RISK", "none"}
        /\ warning = "LIQUIDATION RISK" <=> Leq(Num(100), margin_ratio)
        /\ warning = "HIGH RISK" <=> (Leq(Num(80), margin_ratio) /\ Lt(margin_ratio, Num(100)))
        /\ Leq(current_balance, Zero) => warning = "LIQUIDATION RISK"

\* The warning the same positions and prices give under another wallet balance.
C11_WarningUnder(w) ==
    Warning(MarginRatio(total_maintenance_margin, Add(w, total_pnl)))

\* C11 witness: a run that ends with a balance <= 0, shown as liquidation
\* risk, whose positions and prices are in the high-risk band under a second
\* wallet balance and show no warning under a third.
C11_Witness ==
    /\ positions # <<>>
    /\ error = "none"
    /\ Leq(current_balance, Zero)
    /\ margin_ratio = Num(100)
    /\ warning = "LIQUIDATION RISK"
    /\ \E w \in WalletBalances :
          /\ Lt(Zero, Add(w, total_pnl))
          /\ C11_WarningUnder(w) = "HIGH RISK"
    /\ \E w \in WalletBalances : C11_WarningUnder(w) = "none"

\* ----------------------------------------------------------------------------
\* C12: every stored position has entry_price > 0, a leverage of the selectbox,
\* position_size > 0, 0 < maintenance_margin_rate < 1, margin_used * leverage =
\* position_size and quantity * entry_price = position_size.
C12_StoredPositionsValid ==
    \A i \in 1..Len(positions) :
        LET pos == positions[i]
        IN  /\ Lt(Zero, pos.entry_price)
            /\ pos.leverage \in Leverages
            /\ Lt(Zero, pos.position_size)
            /\ Lt(Zero, pos.maintenance_margin_rate)
            /\ Lt(pos.maintenance_margin_rate, Num(1))
            /\ Mul(pos.margin_used, Num(pos.leverage)) = pos.position_size
            /\ Mul(pos.quantity, pos.entry_price) = pos.position_size

\* C12 witness: a full list whose positions differ in leverage, one of them
\* with a margin and a quantity that are not whole numbers.
C12_Witness ==
    /\ Len(positions) = MaxPositions
    /\ \E i \in 1..Len(positions), j \in 1..Len(positions) :
          /\ positions[i].leverage # positions[j].leverage
          /\ positions[i].margin_used.d # 1
          /\ positions[i].quantity.d # 1
          /\ Mul(positions[i].margin_used, Num(positions[i].leverage))
                = positions[i].position_size

\* ----------------------------------------------------------------------------
\* C13: a step either leaves the position list as it is, or empties a list
\* that had positions (Clear All Positions), or appends one record built from
\* the form at the end, the stored positions unchanged and in the same order
\* (Add Position); a step that refreshes the prices, changes the wallet balance
\* or changes a manual override of a rendered input, and every evaluation of a
\* run, leaves the list as it is.
C13_PositionListLifecycle ==
    [][ /\ \/ positions' = positions
           \/ positions # <<>> /\ positions' = <<>>
           \/ \E f \in FormInputs, side \in Sides :
                 positions' = Append(positions,
                                     NewPosition(f.crypto, side, f.entry_price, f.leverage,
                                                 f.position_size, f.mmr_pct))
        /\ (live_prices' # live_prices \/ wallet_balance' # wallet_balance)
              => positions' = positions
        /\ (override_inputs' # override_inputs /\ positions' # <<>>)
              => positions' = positions
      ]_vars

\* C13 witness: the two scenario positions in the order they were added, still
\* stored unchanged after a price refresh, a wallet change and a manual
\* override (which only a list with the BTCUSDT position offers).
C13_Witness ==
    /\ positions = <<ScenarioBtcLong, ScenarioEthShort>>
    /\ live_prices # DefaultPrices
    /\ wallet_balance # Num(1000)
    /\ Lt(Zero, override_inputs["BTCUSDT"])
    /\ Len(grouped_data) = 2
    /\ error = "none"

\* ----------------------------------------------------------------------------
\* The PnL of a row's group at a given price, by the PnL formula over its
\* weighted entry price and total quantity.
RowPnlAt(ps, row, price) ==
    PositionPnl(row.type, row.weighted_avg_entry, price, RowQuantity(ps, row))

\* C14: for every group whose derived liquidation price is > 0 (not clamped),
\* the group's PnL at the reported liquidation price plus its available
\* balance is exactly its maintenance margin, LONG or SHORT.
C14_LiquidationEquation ==
    \A g \in 1..Len(grouped_data) :
        LET row == grouped_data[g]
        IN  Lt(Zero, RowDerived(positions, row, available_balances[g])) =>
                Add(available_balances[g], RowPnlAt(positions, row, row.liquidation_price))
                    = row.maintenance_margin

\* C14 witness: a LONG group and a SHORT group, both unclamped, the LONG one
\* with the other group's PnL in its available balance and a loss at its
\* liquidation price, each left with exactly its maintenance margin there.
C14_Witness ==
    /\ error = "none"
    /\ Len(grouped_data) = 2
    /\ \A g \in 1..2 : Lt(Zero, RowDerived(positions, grouped_data[g], available_balances[g]))
    /\ \E g \in 1..2, h \in 1..2 :
          /\ grouped_data[g].type = "LONG"
          /\ grouped_data[h].type = "SHORT"
          /\ grouped_data[h].current_pnl # Zero
          /\ available_balances[g] # wallet_balance
          /\ Lt(RowPnlAt(positions, grouped_data[g], grouped_data[g].liquidation_price), Zero)
          /\ Add(available_balances[g],
                 RowPnlAt(positions, grouped_data[g], grouped_data[g].liquidation_price))
                = grouped_data[g].maintenance_margin
          /\ Add(available_balances[h],
                 RowPnlAt(positions, grouped_data[h], grouped_data[h].liquidation_price))
                = grouped_data[h].maintenance_margin

\* ----------------------------------------------------------------------------
\* C15: when a group's current price is its reported, unclamped liquidation
\* price, the account figures of the same run show the liquidation trigger:
\* current_balance = wallet_balance + total_pnl equals total_maintenance_margin,
\* margin_ratio is 100 and the liquidation-risk warning is shown.  The group's
\* price is derived from the groups' maintenance margins (total size times the
\* mean rate) while total_maintenance_margin is summed position by position, so
\* the statement is violated for a group whose members differ in rate and size.
C15_GroupAccountConsistent ==
    \A g \in 1..Len(grouped_data) :
        LET row == grouped_data[g]
        IN  ( /\ Lt(Zero, RowDerived(positions, row, available_balances[g]))
              /\ row.current_price = row.liquidation_price )
            => /\ current_balance = Add(wallet_balance, total_pnl)
               /\ current_balance = total_maintenance_margin
               /\ margin_ratio = Num(100)
               /\ warning = "LIQUIDATION RISK"

====
